---- MODULE Spec2Model ----
(***************************************************************************)
(* A model of the DeepResearch agent service (momomoai/DeepResearch):      *)
(*   - utils/token_tracker.py : TokenTracker                               *)
(*   - agent.py               : Agent (tasks, process_query, stream_events)*)
(*   - main.py                : the FastAPI route handlers                 *)
(***************************************************************************)
EXTENDS Integers, Sequences, FiniteSets, TLC

(***************************************************************************)
(* Bounds of the model.                                                    *)
(***************************************************************************)
MaxBudget == 3
MaxAmount == 2
MaxCalls == 3
MaxResets == 1
MaxRaceCalls == 2
MaxClock == 1
MaxQueries == 2
MaxStreams == 2
MaxLibProcs == 2
MaxToolCalls == 2

\* Python's None
None == "None"

\* tool names the wrappers and the agent pass to the tracker
Tools == {"agent", "jina-search"}

\* token amounts a caller can submit (track_usage takes any int)
Amounts == (0 - 1)..MaxAmount

\* an Optional[int]: None, or an integer
NoInt == [some |-> FALSE, v |-> 0]
SomeInt(n) == [some |-> TRUE, v |-> n]

\* the budget argument of TokenTracker(budget): Optional[int]
Budgets == {NoInt} \cup {SomeInt(n) : n \in 0..MaxBudget}

\* an empty dict
EmptyDict == [t \in {} |-> 0]

\* the usage argument of track_usage: Union[ChatCompletion, int]
UsageArgs ==
    {[kind |-> "int", value |-> n] : n \in Amounts}
    \cup {[kind |-> "ChatCompletion", usage |-> [total_tokens |-> n]] : n \in Amounts}

VARIABLES
    \* ---- one TokenTracker object -------------------------------------
    budget,      \* self.budget
    usages,      \* self.usages: sequence of TokenUsage(tool, tokens)
    \* ---- history of the calls made on it -----------------------------
    calls,       \* number of track_usage calls made so far
    resets,      \* number of reset() calls made so far
    lastCall,    \* the last call: what was submitted, what the total was, how it returned
    accTotal,    \* sum of the amounts of the calls that reached the append
    accBy,       \* the same, per tool
    accTools,    \* the tools with at least one call that reached the append
    sawNegative, \* whether a negative amount was ever submitted
    \* ---- callers running track_usage statement by statement ----------
    caller,      \* per caller: pc, tool, tokens, current_total
    staleAppends, \* appends made with a current_total that was no longer the total
    \* ---- the service ------------------------------------------------
    now,         \* datetime.now() in milliseconds
    trackers,    \* main.trackers: request id -> the query whose trackers it holds
    queries,     \* the accepted queries, each with its trackers (and whether its
                 \* request id was new when it was accepted)
    agents,      \* the Agent objects: self.tasks, self.token_tracker
    heap,        \* the QueryResponse objects
    procs,       \* the coroutines running process_query / _process_query
    streams,     \* the stream_events generators and their consumers
    files,       \* the request ids with a file tasks/{request_id}.json
    lastResponse \* the last HTTP response

trackerVars == <<budget, usages, calls, resets, lastCall, accTotal, accBy, accTools,
                 sawNegative>>
raceVars == <<caller, staleAppends>>
serviceVars == <<now, trackers, queries, agents, heap, procs, streams, files,
                 lastResponse>>
vars == <<budget, usages, calls, resets, lastCall, accTotal, accBy, accTools,
          sawNegative, caller, staleAppends,
          now, trackers, queries, agents, heap, procs, streams, files, lastResponse>>

(***************************************************************************)
(* TokenTracker                                                            *)
(***************************************************************************)

\* Python truthiness of `self.budget` (None and 0 are falsy)
Truthy(b) == b.some /\ b.v # 0

\* line 12: tokens = usage.usage.total_tokens if isinstance(usage, ChatCompletion) else usage
Tokens(u) == IF u.kind = "ChatCompletion" THEN u.usage.total_tokens ELSE u.value

RECURSIVE SumTokens(_)
SumTokens(us) ==
    IF us = <<>> THEN 0 ELSE Head(us).tokens + SumTokens(Tail(us))

\* get_total_usage: sum(usage.tokens for usage in self.usages)
GetTotalUsage(us) == SumTokens(us)

\* get_usage_breakdown with the accumulation lost: breakdown[usage.tool] = usage.tokens
BreakdownStepOverwrite(bd, u) ==
    [t \in (DOMAIN bd) \cup {u.tool} |-> IF t = u.tool THEN u.tokens ELSE bd[t]]

\* one iteration of the loop of get_usage_breakdown:
\*   breakdown[usage.tool] = breakdown.get(usage.tool, 0) + usage.tokens
BreakdownStep(bd, u) ==
    LET old == IF u.tool \in DOMAIN bd THEN bd[u.tool] ELSE 0
    IN  [t \in (DOMAIN bd) \cup {u.tool} |->
            IF t = u.tool THEN old + u.tokens ELSE bd[t]]

RECURSIVE BreakdownFrom(_, _)
BreakdownFrom(bd, us) ==
    IF us = <<>> THEN bd ELSE BreakdownFrom(BreakdownStep(bd, Head(us)), Tail(us))

\* get_usage_breakdown: a dict tool -> cumulative tokens
GetUsageBreakdown(us) == BreakdownFrom(EmptyDict, us)

\* line 15: if self.budget and current_total + tokens > self.budget
Rejects(b, current_total, tokens) ==
    Truthy(b) /\ current_total + tokens > b.v

\* line 19: if not self.budget or current_total + tokens <= self.budget
Appends(b, current_total, tokens) ==
    ~Truthy(b) \/ current_total + tokens <= b.v

\* track_usage with the budget tests left out
OutcomeUnchecked(b, current_total, tokens) == "appended"

\* how a call with this current_total returns: "rejected" is the return of
\* line 17, "appended" the append of line 20, "skipped" falling off the end
Outcome(b, current_total, tokens) ==
    IF Rejects(b, current_total, tokens) THEN "rejected"
    ELSE IF Appends(b, current_total, tokens) THEN "appended"
    ELSE "skipped"

\* track_usage that records the part of a rejected addition that still fits
UsagesAfterPartial(b, us, current_total, tool, tokens) ==
    IF Outcome(b, current_total, tokens) = "appended"
    THEN Append(us, [tool |-> tool, tokens |-> tokens])
    ELSE IF b.v > current_total
         THEN Append(us, [tool |-> tool, tokens |-> b.v - current_total])
         ELSE us

\* self.usages after lines 15-20
UsagesAfter(b, us, current_total, tool, tokens) ==
    IF Outcome(b, current_total, tokens) = "appended"
    THEN Append(us, [tool |-> tool, tokens |-> tokens])
    ELSE us

NoCall == [op |-> "none", tool |-> None, tokens |-> 0, before |-> 0,
           usagesBefore |-> <<>>, outcome |-> "none"]

\* the bookkeeping of one finished call
Recorded(tool, tokens, us, outcome) ==
    /\ calls' = calls + 1
    /\ sawNegative' = (sawNegative \/ tokens < 0)
    /\ lastCall' = [op |-> "track_usage", tool |-> tool, tokens |-> tokens,
                    before |-> GetTotalUsage(us),
                    usagesBefore |-> us, outcome |-> outcome]
    /\ IF outcome = "appended"
       THEN /\ accTotal' = accTotal + tokens
            /\ accBy' = [accBy EXCEPT ![tool] = @ + tokens]
            /\ accTools' = accTools \cup {tool}
       ELSE UNCHANGED <<accTotal, accBy, accTools>>

\* a caller that is not inside track_usage
IdleCaller == [pc |-> "idle", tool |-> None, tokens |-> 0, current_total |-> 0]

Init ==
    \* no TokenTracker constructed yet
    /\ budget = NoInt
    /\ usages = <<>>
    /\ calls = 0
    /\ resets = 0
    /\ lastCall = NoCall
    /\ accTotal = 0
    /\ accBy = [t \in Tools |-> 0]
    /\ accTools = {}
    /\ sawNegative = FALSE
    /\ caller = [c \in {1, 2} |-> IdleCaller]
    /\ staleAppends = 0
    \* the service after import: no request yet
    /\ now = 0
    /\ trackers = EmptyDict
    /\ queries = <<>>
    /\ agents = <<>>
    /\ heap = <<>>
    /\ procs = <<>>
    /\ streams = <<>>
    /\ files = {}
    /\ lastResponse = [route |-> "none", id |-> 0, status |-> 0]

\* tracker = TokenTracker(b), lines 7-9
Construct(b) ==
    /\ lastCall.op = "none"
    /\ budget' = b
    /\ usages' = <<>>
    /\ lastCall' = [NoCall EXCEPT !.op = "__init__"]
    /\ UNCHANGED <<calls, resets, accTotal, accBy, accTools, sawNegative>>

\* await tracker.track_usage(tool, usage), run by one caller from start to end
TrackUsage(tool, u) ==
    LET tokens == Tokens(u)
        current_total == GetTotalUsage(usages)
    IN  /\ lastCall.op # "none"
        /\ calls < MaxCalls
        /\ usages' = UsagesAfter(budget, usages, current_total, tool, tokens)
        /\ Recorded(tool, tokens, usages, Outcome(budget, current_total, tokens))
        /\ UNCHANGED <<budget, resets>>

\* tracker.reset()
Reset ==
    /\ lastCall.op # "none"
    /\ resets < MaxResets
    /\ usages' = <<>>
    /\ resets' = resets + 1
    /\ lastCall' = [NoCall EXCEPT !.op = "reset", !.before = GetTotalUsage(usages)]
    /\ UNCHANGED <<budget, calls, accTotal, accBy, accTools, sawNegative>>

NextTracker ==
    \/ \E b \in Budgets : Construct(b) /\ UNCHANGED <<raceVars, serviceVars>>
    \/ \E tool \in Tools, u \in UsageArgs :
          TrackUsage(tool, u) /\ UNCHANGED <<raceVars, serviceVars>>
    \/ Reset /\ UNCHANGED <<raceVars, serviceVars>>

SpecTracker == Init /\ [][NextTracker]_vars

(***************************************************************************)
(* Two callers of track_usage on one tracker, each running the method      *)
(* statement by statement (no lock is taken anywhere in the method).       *)
(***************************************************************************)

\* entry and line 12
CallerEnter(c, tool, u) ==
    /\ lastCall.op # "none"
    /\ caller[c].pc = "idle"
    /\ calls + Cardinality({d \in {1, 2} : caller[d].pc # "idle"}) < MaxRaceCalls
    /\ caller' = [caller EXCEPT ![c] =
                    [IdleCaller EXCEPT !.pc = "l14", !.tool = tool, !.tokens = Tokens(u)]]
    /\ UNCHANGED <<trackerVars, staleAppends>>

\* line 14: current_total = self.get_total_usage()
CallerRead(c) ==
    /\ caller[c].pc = "l14"
    /\ caller' = [caller EXCEPT ![c].pc = "l15",
                                ![c].current_total = GetTotalUsage(usages)]
    /\ UNCHANGED <<trackerVars, staleAppends>>

\* lines 15-20: the two tests and the append
CallerFinish(c) ==
    LET me == caller[c]
        outcome == Outcome(budget, me.current_total, me.tokens)
    IN  /\ me.pc = "l15"
        /\ usages' = UsagesAfter(budget, usages, me.current_total, me.tool, me.tokens)
        /\ Recorded(me.tool, me.tokens, usages, outcome)
        /\ staleAppends' =
              IF outcome = "appended" /\ me.current_total # GetTotalUsage(usages)
              THEN staleAppends + 1 ELSE staleAppends
        /\ caller' = [caller EXCEPT ![c].pc = "idle"]
        /\ UNCHANGED <<budget, resets>>

NextRace ==
    \/ \E b \in Budgets : Construct(b) /\ UNCHANGED <<raceVars, serviceVars>>
    \/ \E c \in {1, 2}, tool \in Tools, u \in UsageArgs :
          CallerEnter(c, tool, u) /\ UNCHANGED serviceVars
    \/ \E c \in {1, 2} : CallerRead(c) /\ UNCHANGED serviceVars
    \/ \E c \in {1, 2} : CallerFinish(c) /\ UNCHANGED serviceVars

SpecRace == Init /\ [][NextRace]_vars

(***************************************************************************)
(* Agent (agent.py)                                                        *)
(***************************************************************************)

\* request ids of the service: str(int(datetime.now().timestamp() * 1000))
Ids == 0..MaxClock

\* the request id the callers of one Agent's methods use (the tasks of
\* different ids share nothing: self.tasks is keyed by the id)
LibIds == {1}

\* the tracker object of the variables budget and usages, as an instance of a
\* subclass of TokenTracker of the caller's that also defines add_usage:
\*   class T(TokenTracker):
\*       def add_usage(self, tool, tokens): pass
\* (process_query takes whatever object it is given as token_tracker)
DuckTracker == 0 - 1

\* what the search of line 168 returns (jina_search.py): a response with
\* another status than 200, returned at line 37 with nothing tracked, or a
\* response with data whose results report `tokens` tokens in all (line 50)
SearchResult(ok, tokens) == [ok |-> ok, tokens |-> tokens]
SearchResults ==
    {SearchResult(FALSE, 0)} \cup {SearchResult(TRUE, n) : n \in 0..MaxAmount}

\* the query strings a client sends
QueryStrings == {"", "q"}

\* str(e) of what the chat completion call can raise
CompletionErrors == {"", "connection error"}

\* the methods TokenTracker defines (token_tracker.py lines 7-39)
TokenTrackerMethods ==
    {"track_usage", "get_total_usage", "get_usage_breakdown", "print_summary", "reset"}

\* str(e) of the KeyError of trackers[request_id]
KeyError(request_id) == "'" \o ToString(request_id) \o "'"

\* str(e) of the AttributeError of a call of an undefined method
AttributeError(method) == "'TokenTracker' object has no attribute '" \o method \o "'"

\* a test that takes every string, the empty one too, for a value
TruthyStrAny(x) == TRUE

\* Python truthiness of an Optional[str]
TruthyStr(x) == x # None /\ x # ""

DictPut(d, k, v) == [x \in (DOMAIN d) \cup {k} |-> IF x = k THEN v ELSE d[x]]
DictDel(d, k) == [x \in (DOMAIN d) \ {k} |-> d[x]]

\* QueryResponse(request_id=request_id, status="running", actions=[])
NewTask(id) ==
    [request_id |-> id, status |-> "running", actions |-> <<>>, final_answer |-> None]

\* ActionState.__init__ (action_tracker.py lines 5-14)
NewActionState ==
    [this_step |-> "answer", gaps |-> <<>>, bad_attempts |-> 0, total_step |-> 0]

\* ActionTracker.track_action (lines 20-28): the keys of new_state replace
\* the fields of the state
TrackAction(state, new_state) ==
    [k \in DOMAIN state |-> IF k \in DOMAIN new_state THEN new_state[k] ELSE state[k]]

\* ActionTracker.get_state (lines 30-36)
GetState(state) ==
    [this_step |-> state.this_step, gaps |-> state.gaps,
     bad_attempts |-> state.bad_attempts, total_step |-> state.total_step]

\* _process_query as it would be if it counted its steps on the tracker:
\*   await self.action_tracker.track_action({"total_step": len(task.actions)})
ActionStateCounted(state, step) == TrackAction(state, [total_step |-> step])

\* the agent's ActionTracker after _process_query has appended an action
\* (lines 159-164 and 172-178): the action goes to task.actions only, the
\* tracker is not called
ActionStateAfter(state, step) == state

\* Agent(): self.token_tracker = TokenTracker(), self.action_tracker =
\* ActionTracker(), self.tasks = {}
\* (token_tracker 0 is the agent's own unbudgeted TokenTracker, n > 0 the
\* TokenTracker of query n, DuckTracker an object of another class;
\* action_tracker 0 is the agent's own ActionTracker, whose state is
\* action_state, n > 0 the ActionTracker of query n)
NewAgent ==
    [tasks |-> EmptyDict, token_tracker |-> 0, action_tracker |-> 0,
     action_state |-> NewActionState]

\* a call that is handed one module-level TokenTracker instead of the
\* request's own
NewProcSharedTracker(kind, a, id, tracker) ==
    [kind |-> kind, agent |-> a, id |-> id,
     tracker |-> IF tracker > 0 THEN 1 ELSE tracker,
     task |-> 0, pc |-> "scheduled", rejected |-> FALSE, appendedAfter |-> 0]

\* the objects a coroutine holds, and whether a track_usage call made for it
\* was rejected and how many actions it appended after that
NewProc(kind, a, id, tracker) ==
    [kind |-> kind, agent |-> a, id |-> id, tracker |-> tracker,
     task |-> 0, pc |-> "scheduled", rejected |-> FALSE, appendedAfter |-> 0]

\* a generator of the route that starts at line 167, without the first yield
NewStreamSkipConnect(kind, a, id) ==
    [kind |-> kind, agent |-> a, id |-> id, task |-> 0, last_action_count |-> 0,
     pending |-> <<>>, pc |-> "open",
     events |-> <<>>, disconnected |-> FALSE, raised |-> None, crashed |-> FALSE,
     owed |-> {}]

\* a generator that has not run yet: the one of the route (kind "sse",
\* main.py lines 153-189) starts before its first yield, the one of
\* Agent.stream_events at line 45
NewStream(kind, a, id) ==
    [kind |-> kind, agent |-> a, id |-> id, task |-> 0, last_action_count |-> 0,
     pending |-> <<>>, pc |-> IF kind = "sse" THEN "connect" ELSE "open",
     events |-> <<>>, disconnected |-> FALSE, raised |-> None, crashed |-> FALSE,
     owed |-> {}]

\* the events of a stream
Event(type, idx, action, step, answer) ==
    [type |-> type, idx |-> idx, action |-> action, step |-> step, answer |-> answer]
\* main.py lines 156-165
ConnectedEvent(request_id, usage, state) ==
    [type |-> "connected", idx |-> 0, action |-> None, step |-> 0, answer |-> None,
     requestId |-> request_id, tokenUsage |-> usage, actionState |-> state]
\* agent.py lines 56-74 and 79-89: "badAttempts": 0, "gaps": []
Progress(idx, action, step) ==
    [type |-> "progress", idx |-> idx, action |-> action, step |-> step,
     answer |-> None, badAttempts |-> 0, gaps |-> <<>>]
InitialProgress == Progress(0, "initial", 0)
ActionProgress(idx, action, step) == Progress(idx, action, step)
FinalEvent(answer) == Event("final", 0, None, 0, answer)

\* the streams inside the loop of stream_events (lines 76-91) on heap object t
Attached(t) ==
    {s \in 1..Len(streams) :
        streams[s].task = t /\ streams[s].pc \in {"poll", "yield", "sleep"}}

\* task.actions.append(action), with the streams that were attached noted
AppendAction(strs, t, idx) ==
    [s \in 1..Len(strs) |->
        IF s \in Attached(t) THEN [strs[s] EXCEPT !.owed = @ \cup {idx}] ELSE strs[s]]

\* agent = Agent()
AgentNew ==
    /\ Len(agents) < 1
    /\ agents' = Append(agents, NewAgent)
    /\ UNCHANGED <<now, trackers, queries, heap, procs, streams, files, lastResponse>>

\* Agent.start_query, lines 34-42
StartQuery(a) ==
    /\ a \in 1..Len(agents)
    /\ Len(procs) < MaxLibProcs
    /\ \E id \in LibIds :
        /\ \A b \in 1..Len(agents) : id \notin DOMAIN agents[b].tasks
        /\ heap' = Append(heap, NewTask(id))
        /\ agents' = [agents EXCEPT ![a].tasks = DictPut(@, id, Len(heap) + 1)]
        /\ procs' = Append(procs, NewProc("_process_query", a, id, 0))
    /\ UNCHANGED <<now, trackers, queries, streams, files, lastResponse>>

\* a call of Agent.process_query (lines 108-116), not yet run; tracker is 0
\* for token_tracker=None
CallProcessQuery(a, id, tracker) ==
    /\ a \in 1..Len(agents)
    /\ tracker = DuckTracker => lastCall.op # "none"
    /\ Len(procs) < MaxLibProcs
    /\ procs' = Append(procs, NewProc("process_query", a, id, tracker))
    /\ UNCHANGED <<now, trackers, queries, agents, heap, streams, files, lastResponse>>

\* a call of Agent.stream_events (line 44): the generator object, not yet run
\* (one consumer: the generators only read the task and do not see each other)
CallStreamEvents(a, id) ==
    /\ a \in 1..Len(agents)
    /\ streams = <<>>
    /\ streams' = Append(streams, NewStream("lib", a, id))
    /\ UNCHANGED <<now, trackers, queries, agents, heap, procs, files, lastResponse>>

\* the coroutine runs to its first await:
\*   process_query lines 117-131, then _process_query lines 142-155
ProcStart(p) ==
    LET pr == procs[p]
        ag == agents[pr.agent]
        \* lines 118-119: if token_tracker: self.token_tracker = token_tracker
        tt == IF pr.tracker # 0 THEN pr.tracker ELSE ag.token_tracker
        \* lines 120-121: if action_tracker: self.action_tracker = action_tracker
        at == IF pr.tracker > 0 THEN pr.tracker ELSE ag.action_tracker
        fresh == pr.kind = "process_query" \/ pr.id \notin DOMAIN ag.tasks
        t == IF fresh THEN Len(heap) + 1 ELSE ag.tasks[pr.id]
    IN  /\ p \in 1..Len(procs)
        /\ pr.pc = "scheduled"
        /\ heap' = IF fresh THEN Append(heap, NewTask(pr.id)) ELSE heap
        /\ agents' = [agents EXCEPT ![pr.agent] =
                        [ag EXCEPT !.tasks = DictPut(ag.tasks, pr.id, t),
                                   !.token_tracker = tt,
                                   !.action_tracker = at]]
        /\ procs' = [procs EXCEPT ![p].task = t, ![p].pc = "completion"]
        /\ UNCHANGED <<now, trackers, queries, streams, files, lastResponse>>

\* except Exception as e: task.status = "error"; task.final_answer = str(e)
\* (lines 184-187, and again lines 136-139 in process_query)
Failed(task, msg) == [task EXCEPT !.status = "error", !.final_answer = msg]

\* self.token_tracker.add_usage(...), lines 165 and 179: an AttributeError
\* unless the tracker object's class defines the method
AddUsageRaises(tracker) ==
    tracker # DuckTracker /\ "add_usage" \notin TokenTrackerMethods

\* the coroutine resumes from an await (the chat completion of line 151, the
\* search of line 168) and runs to the next one or to its end; the awaited
\* call has returned (the search with result sr), or has raised an exception
\* e with str(e) = msg
ProcResume(p, raises, msg, sr) ==
    LET pr == procs[p]
        task == heap[pr.task]
        tracker == agents[pr.agent].token_tracker
        idx == Len(task.actions) + 1
        \* jina_search.py lines 51-52: if tracker: await tracker.track_usage(...)
        tracked == ~raises /\ pr.pc = "search" /\ sr.ok /\ tracker = DuckTracker
        current_total == GetTotalUsage(usages)
        outcome == Outcome(budget, current_total, sr.tokens)
        rejected == pr.rejected \/ (tracked /\ outcome = "rejected")
        at == agents[pr.agent].action_tracker
    IN  /\ p \in 1..Len(procs)
        /\ pr.pc \in {"completion", "search"}
        /\ IF tracked
           THEN /\ usages' = UsagesAfter(budget, usages, current_total,
                                         "jina-search", sr.tokens)
                /\ Recorded("jina-search", sr.tokens, usages, outcome)
                /\ UNCHANGED <<budget, resets>>
           ELSE UNCHANGED trackerVars
        /\ IF raises
           THEN \* lines 184-187
                /\ heap' = [heap EXCEPT ![pr.task] = Failed(task, msg)]
                /\ procs' = [procs EXCEPT ![p].pc = "done"]
                /\ UNCHANGED streams
           ELSE IF pr.pc = "completion"
           THEN \* lines 156-165
                /\ streams' = AppendAction(streams, pr.task, idx)
                /\ IF AddUsageRaises(tracker)
                   THEN /\ heap' = [heap EXCEPT ![pr.task] =
                                      Failed([task EXCEPT !.actions = Append(@, "search")],
                                             AttributeError("add_usage"))]
                        /\ procs' = [procs EXCEPT ![p].pc = "done"]
                   ELSE /\ heap' = [heap EXCEPT ![pr.task].actions = Append(@, "search")]
                        /\ procs' = [procs EXCEPT ![p].pc = "search"]
           ELSE \* lines 169-183, then lines 132-135
                /\ streams' = AppendAction(streams, pr.task, idx)
                /\ IF AddUsageRaises(tracker)
                   THEN /\ heap' = [heap EXCEPT ![pr.task] =
                                      Failed([task EXCEPT !.actions = Append(@, "answer")],
                                             AttributeError("add_usage"))]
                   ELSE /\ heap' = [heap EXCEPT ![pr.task] =
                                      [task EXCEPT !.actions = Append(@, "answer"),
                                                   !.final_answer = "answer",
                                                   !.status = "completed"]]
                /\ procs' = [procs EXCEPT
                                ![p].pc = "done",
                                ![p].rejected = rejected,
                                ![p].appendedAfter = IF rejected THEN @ + 1 ELSE @]
        /\ queries' = IF ~raises /\ at > 0
                      THEN [queries EXCEPT ![at].action_tracker =
                                              ActionStateAfter(@, idx)]
                      ELSE queries
        /\ agents' = IF ~raises /\ at = 0
                     THEN [agents EXCEPT ![pr.agent].action_state =
                                            ActionStateAfter(@, idx)]
                     ELSE agents
        /\ UNCHANGED <<now, trackers, files, lastResponse>>

\* stream_events without line 90: the count is never advanced
CountStuck(last_action_count, actions) == last_action_count

\* line 90: last_action_count = len(task.actions)
CountAfterLoop(last_action_count, actions) == Len(actions)

\* a finally clause that leaves the map alone
TrackersKept(st) == trackers

\* finally: if request_id in trackers: del trackers[request_id]  (main.py 187-189)
TrackersAfterClose(st) ==
    IF st.kind = "sse" /\ st.id \in DOMAIN trackers THEN DictDel(trackers, st.id)
    ELSE trackers

\* the consumer takes the next event: the generator runs from where it is
\* suspended to its next yield, to its sleep, or to its end
StreamStep(s) ==
    LET st == streams[s]
        a == IF st.pc = "open" /\ st.kind = "sse" THEN Len(agents) + 1 ELSE st.agent
        ags == IF st.pc = "open" /\ st.kind = "sse" THEN Append(agents, NewAgent)
               ELSE agents
        known == st.pc = "open" /\ st.id \in DOMAIN ags[a].tasks
        t == IF st.pc # "open" THEN st.task
             ELSE IF known THEN ags[a].tasks[st.id] ELSE Len(heap) + 1
        task == IF t \in 1..Len(heap) THEN heap[t] ELSE NewTask(st.id)
        \* trackers[request_id]
        entry == queries[trackers[st.id]]
    IN  /\ s \in 1..Len(streams)
        /\ st.pc # "closed"
        /\ ~st.disconnected
        /\ CASE st.pc = "connect" ->
                \* main.py lines 154-165 (and 176-189 when trackers[request_id] is gone)
                /\ IF st.id \in DOMAIN trackers
                   THEN /\ streams' = [streams EXCEPT ![s].pc = "open",
                                          ![s].events = Append(@,
                                              ConnectedEvent(st.id,
                                                  GetTotalUsage(entry.usages),
                                                  GetState(entry.action_tracker)))]
                        /\ UNCHANGED trackers
                   ELSE \* line 161 raises KeyError, and line 182, in the
                        \* handler of line 176, raises it again
                        /\ streams' = [streams EXCEPT ![s].pc = "closed",
                                          ![s].raised = KeyError(st.id),
                                          ![s].crashed = TRUE]
                        /\ trackers' = TrackersAfterClose(st)
                /\ UNCHANGED <<agents, heap>>
             [] st.pc = "open" ->
                \* main.py line 167, agent.py lines 45-74
                /\ agents' = [ags EXCEPT ![a].tasks = DictPut(@, st.id, t)]
                /\ heap' = IF known THEN heap ELSE Append(heap, NewTask(st.id))
                /\ streams' = [streams EXCEPT ![s].agent = a, ![s].task = t,
                                  ![s].last_action_count = 0, ![s].pc = "poll",
                                  ![s].events = Append(@, InitialProgress)]
                /\ UNCHANGED trackers
             [] st.pc = "poll" ->
                \* agent.py lines 76-79 and 93-101
                /\ IF task.status = "running"
                   THEN IF Len(task.actions) > st.last_action_count
                        THEN streams' = [streams EXCEPT
                                ![s].pending = [i \in 1..(Len(task.actions) - st.last_action_count - 1)
                                                  |-> st.last_action_count + 1 + i],
                                ![s].pc = "yield",
                                ![s].events = Append(@,
                                    ActionProgress(st.last_action_count + 1,
                                                   task.actions[st.last_action_count + 1],
                                                   Len(task.actions)))]
                        ELSE streams' = [streams EXCEPT ![s].pc = "sleep"]
                   ELSE IF TruthyStr(task.final_answer)
                        THEN streams' = [streams EXCEPT ![s].pc = "final",
                                ![s].events = Append(@, FinalEvent(task.final_answer))]
                        ELSE streams' = [streams EXCEPT ![s].pc = "closed"]
                /\ trackers' = IF task.status # "running" /\ ~TruthyStr(task.final_answer)
                               THEN TrackersAfterClose(st) ELSE trackers
                /\ UNCHANGED <<agents, heap>>
             [] st.pc = "yield" ->
                \* agent.py lines 78-91: the rest of the slice, then the new count
                /\ IF st.pending # <<>>
                   THEN streams' = [streams EXCEPT
                                ![s].pending = Tail(@),
                                ![s].events = Append(@,
                                    ActionProgress(Head(st.pending),
                                                   task.actions[Head(st.pending)],
                                                   Len(task.actions)))]
                   ELSE streams' = [streams EXCEPT
                                ![s].last_action_count =
                                    CountAfterLoop(st.last_action_count, task.actions),
                                ![s].pc = "sleep"]
                /\ UNCHANGED <<agents, heap, trackers>>
             [] st.pc = "sleep" ->
                \* agent.py line 91: asyncio.sleep(STEP_SLEEP / 1000) is over
                /\ streams' = [streams EXCEPT ![s].pc = "poll"]
                /\ UNCHANGED <<agents, heap, trackers>>
             [] st.pc = "final" ->
                \* the generator returns after its last yield (line 101)
                /\ streams' = [streams EXCEPT ![s].pc = "closed"]
                /\ trackers' = TrackersAfterClose(st)
                /\ UNCHANGED <<agents, heap>>
        /\ UNCHANGED <<now, queries, procs, files, lastResponse>>

\* the standalone tracker object is left alone
TrackerIdle == UNCHANGED <<trackerVars, raceVars>>

\* a search that tracks nothing (status other than 200)
NoSearch == SearchResult(FALSE, 0)

NextAgent ==
    \/ AgentNew /\ TrackerIdle
    \/ \E a \in 1..Len(agents) : StartQuery(a) /\ TrackerIdle
    \/ \E a \in 1..Len(agents), id \in LibIds : CallProcessQuery(a, id, 0) /\ TrackerIdle
    \/ \E a \in 1..Len(agents), id \in LibIds : CallStreamEvents(a, id) /\ TrackerIdle
    \/ \E p \in 1..Len(procs) : ProcStart(p) /\ TrackerIdle
    \/ \E p \in 1..Len(procs) : ProcResume(p, FALSE, "", NoSearch) /\ UNCHANGED raceVars
    \/ \E p \in 1..Len(procs), e \in CompletionErrors :
          ProcResume(p, TRUE, e, NoSearch) /\ UNCHANGED raceVars
    \/ \E s \in 1..Len(streams) : StreamStep(s) /\ TrackerIdle

\* one Agent object and the callers of its methods, every tracker a TokenTracker
SpecAgent == Init /\ [][NextAgent]_vars

NextStream ==
    \/ NextAgent
    \/ Construct(NoInt) /\ UNCHANGED <<raceVars, serviceVars>>
    \/ \E a \in 1..Len(agents), id \in LibIds :
          CallProcessQuery(a, id, DuckTracker) /\ TrackerIdle

\* the same, with callers that may also hand process_query an unbudgeted
\* tracker of a subclass that defines add_usage, so that _process_query gets
\* past line 165 (SpecBudget has the searches that track usage)
SpecStream == Init /\ [][NextStream]_vars

NextBudget ==
    \/ AgentNew /\ TrackerIdle
    \/ \E b \in Budgets : Construct(b) /\ UNCHANGED <<raceVars, serviceVars>>
    \/ \E a \in 1..Len(agents), id \in LibIds :
          CallProcessQuery(a, id, DuckTracker) /\ TrackerIdle
    \/ \E p \in 1..Len(procs) : ProcStart(p) /\ TrackerIdle
    \/ \E p \in 1..Len(procs), sr \in SearchResults :
          ProcResume(p, FALSE, "", sr) /\ UNCHANGED raceVars
    \/ \E p \in 1..Len(procs), e \in CompletionErrors :
          ProcResume(p, TRUE, e, NoSearch) /\ UNCHANGED raceVars

\* callers that hand process_query a budgeted tracker of such a subclass
SpecBudget == Init /\ [][NextBudget]_vars

(***************************************************************************)
(* The tool wrappers (deepresearch/tools)                                  *)
(***************************************************************************)

\* the classes of tools/: search, read_url, evaluate_answer, analyze_steps,
\* rewrite_query, dedup_queries
Wrappers == {"JinaSearch", "BraveSearch", "Reader", "Evaluator", "ErrorAnalyzer",
             "QueryRewriter", "Deduplicator"}

\* the wrappers that call an HTTP API and count the tokens themselves; the
\* others hand the chat completion to the tracker
HttpWrappers == {"JinaSearch", "BraveSearch", "Reader"}

\* the first argument of each wrapper's track_usage call
ToolNameOf(w) ==
    CASE w = "JinaSearch" -> "jina-search"
      [] w = "BraveSearch" -> "brave-search"
      [] w = "Reader" -> "read"
      [] w = "Evaluator" -> "evaluator"
      [] w = "ErrorAnalyzer" -> "error-analyzer"
      [] w = "QueryRewriter" -> "query-rewriter"
      [] w = "Deduplicator" -> "dedup"

\* what the awaited request of a wrapper can come back with:
\*   "http_error"     the client raises (httpx.HTTPError, an openai error)
\*   "status_error"   an HTTP status other than 200
\*   "402"            a body with code 402
\*   "no_data"        a body without data
\*   "bad_json"       function_call.arguments missing or not JSON
\*   "missing_key"    JSON without a key the wrapper reads itself
\*   "invalid_fields" a body the wrapper can read but the response model rejects
\*   "ok"             a well-formed answer
Replies == {"http_error", "status_error", "402", "no_data", "bad_json",
            "missing_key", "invalid_fields", "ok"}

\* the replies each wrapper's request can produce
RepliesOf(w) ==
    IF w \in HttpWrappers
    THEN {"http_error", "status_error", "402", "no_data", "invalid_fields", "ok"}
    ELSE {"http_error", "bad_json", "missing_key", "invalid_fields", "ok"}

\* len(query), the count JinaSearch.search returns with a failure response
QueryLen == 1

\* the wrapper returns a failure response: jina_search.py lines 29-37
ReturnsFailure(w, reply) == w = "JinaSearch" /\ reply = "status_error"

\* the wrapper raises before it reaches `if tracker:`
RaisesBeforeTracking(w, reply) ==
    CASE w = "JinaSearch" ->
            \* lines 39-43 and 56-58
            reply \in {"http_error", "402", "no_data", "invalid_fields"}
      [] w = "BraveSearch" ->
            \* line 25 (no status test: an error body fails the model) and 39-41
            reply \in {"http_error", "status_error", "402", "no_data", "invalid_fields"}
      [] w = "Reader" ->
            \* lines 30-36 and 50-52
            reply \in {"http_error", "status_error", "402", "no_data", "invalid_fields"}
      [] w = "Evaluator" ->
            \* lines 72-81: json.loads, json_data["is_definitive"], ["reasoning"]
            reply \in {"http_error", "bad_json", "missing_key"}
      [] w = "ErrorAnalyzer" ->
            \* lines 62-71: json.loads, json_data["blame"]
            reply \in {"http_error", "bad_json", "missing_key"}
      [] w = "QueryRewriter" ->
            \* lines 75-76: json.loads, json_data["queries"]
            reply \in {"http_error", "bad_json", "missing_key"}
      [] w = "Deduplicator" ->
            \* lines 90-92: response.json(), json_data["unique_queries"]
            reply \in {"http_error", "bad_json", "missing_key"}

\* the wrapper raises after its track_usage call: the response model is built
\* in the return statement (evaluator.py line 86, error_analyzer.py line 76);
\* rewrite_query and dedup_queries return the list as it came
RaisesAfterTracking(w, reply) ==
    w \in {"Evaluator", "ErrorAnalyzer"} /\ reply = "invalid_fields"

\* the second argument of the track_usage call: the token count, or the
\* ChatCompletion itself (evaluator.py line 84)
UsageArgOf(w, n) ==
    IF w \in HttpWrappers \/ w = "Deduplicator"
    THEN [kind |-> "int", value |-> n]
    ELSE [kind |-> "ChatCompletion", usage |-> [total_tokens |-> n]]

\* a wrapper call that awaits its request
NewToolCall(w, given) ==
    [kind |-> "tool", wrapper |-> w, tracker |-> given, pc |-> "request",
     failure |-> FALSE, tokens |-> 0, tracked |-> <<>>]

\* a wrapper is called, with a tracker or with tracker=None
ToolCall(w, given) ==
    /\ Len(procs) < MaxToolCalls
    /\ given => lastCall.op # "none"
    /\ procs' = Append(procs, NewToolCall(w, given))
    /\ UNCHANGED <<trackerVars, raceVars>>
    /\ UNCHANGED <<now, trackers, queries, agents, heap, streams, files, lastResponse>>

\* the request of call t comes back and the wrapper runs to its end; the
\* track_usage it awaits has no await of its own
ToolRespond(t, reply, n) ==
    LET c == procs[t]
        w == c.wrapper
        u == UsageArgOf(w, n)
        reaches == ~ReturnsFailure(w, reply) /\ ~RaisesBeforeTracking(w, reply)
        succeeds == reaches /\ ~RaisesAfterTracking(w, reply)
        \* `if tracker:` is true of every TokenTracker object
        calls_tracker == reaches /\ c.tracker
    IN  /\ t \in 1..Len(procs)
        /\ c.kind = "tool"
        /\ c.pc = "request"
        /\ reply \in RepliesOf(w)
        /\ usages' = IF calls_tracker
                     THEN UsagesAfter(budget, usages, GetTotalUsage(usages),
                                      ToolNameOf(w), Tokens(u))
                     ELSE usages
        /\ procs' = [procs EXCEPT ![t] =
              [c EXCEPT
                 !.pc = IF ReturnsFailure(w, reply) \/ succeeds
                        THEN "returned" ELSE "raised",
                 !.failure = ReturnsFailure(w, reply),
                 !.tokens = IF ReturnsFailure(w, reply) THEN QueryLen
                            ELSE IF succeeds THEN n
                            ELSE 0,
                 !.tracked = IF calls_tracker
                             THEN Append(@, [tool |-> ToolNameOf(w), tokens |-> Tokens(u)])
                             ELSE @]]
        /\ UNCHANGED <<budget, calls, resets, lastCall, accTotal, accBy, accTools,
                       sawNegative, raceVars>>
        /\ UNCHANGED <<now, trackers, queries, agents, heap, streams, files, lastResponse>>

NextTools ==
    \/ \E b \in Budgets : Construct(b) /\ UNCHANGED <<raceVars, serviceVars>>
    \/ \E w \in Wrappers, given \in BOOLEAN : ToolCall(w, given)
    \/ \E t \in 1..Len(procs), reply \in Replies, n \in 0..MaxAmount :
          ToolRespond(t, reply, n)

\* one TokenTracker and the callers of the tool wrappers
SpecTools == Init /\ [][NextTools]_vars

(***************************************************************************)
(* Agent of deepresearch-py (deepresearch-py/deepresearch/agent.py)        *)
(***************************************************************************)

\* request_id = str(uuid.uuid4()): an id no task has yet
PyFreshId == Len(heap) + 1

\* the ids a consumer can ask stream_events for
PyIds == 1..(MaxLibProcs + 1)

\* a _process_query that leaves an answer behind:
\*   task.final_answer = request.query
PyProcessedWithAnswer(task, q) ==
    [task EXCEPT !.status = "completed", !.final_answer = q]

\* _process_query, lines 68-75: the try body is `pass`, so the else clause
\* sets the status
PyProcessed(task, q) == [task EXCEPT !.status = "completed"]

\* Agent.start_query, lines 34-42
PyStartQuery(a, q) ==
    /\ a \in 1..Len(agents)
    /\ Len(procs) < MaxLibProcs
    /\ heap' = Append(heap, NewTask(PyFreshId))
    /\ agents' = [agents EXCEPT ![a].tasks = DictPut(@, PyFreshId, Len(heap) + 1)]
    /\ procs' = Append(procs,
                       [NewProc("py", a, PyFreshId, 0) EXCEPT !.task = Len(heap) + 1])
    /\ queries' = Append(queries, [request_id |-> PyFreshId, q |-> q])
    /\ UNCHANGED <<now, trackers, streams, files, lastResponse>>

\* the coroutine of _process_query runs, lines 66-75: it holds no await
PyProcRun(p) ==
    /\ p \in 1..Len(procs)
    /\ procs[p].kind = "py"
    /\ procs[p].pc = "scheduled"
    /\ heap' = [heap EXCEPT ![procs[p].task] = PyProcessed(@, queries[p].q)]
    /\ procs' = [procs EXCEPT ![p].pc = "done"]
    /\ UNCHANGED <<now, trackers, queries, agents, streams, files, lastResponse>>

\* a call of Agent.stream_events (line 44): the generator object, not yet run
PyCallStreamEvents(a, id) ==
    /\ a \in 1..Len(agents)
    /\ Len(streams) < MaxStreams
    /\ streams' = Append(streams, NewStream("py", a, id))
    /\ UNCHANGED <<now, trackers, queries, agents, heap, procs, files, lastResponse>>

\* the consumer takes the next event of Agent.stream_events, lines 44-59
PyStreamStep(s) ==
    LET st == streams[s]
        tasks == agents[st.agent].tasks
        task == heap[st.task]
    IN  /\ s \in 1..Len(streams)
        /\ st.kind = "py"
        /\ st.pc # "closed"
        /\ CASE st.pc = "open" ->
                \* lines 45-49
                IF st.id \notin DOMAIN tasks
                THEN streams' = [streams EXCEPT ![s].pc = "closed",
                                    ![s].raised = "Invalid request ID",
                                    ![s].crashed = TRUE]
                ELSE streams' = [streams EXCEPT ![s].task = tasks[st.id],
                                    ![s].last_action_count = 0, ![s].pc = "poll"]
             [] st.pc = "poll" ->
                \* lines 51-54 and 58-59
                IF task.status = "running"
                THEN IF Len(task.actions) > st.last_action_count
                     THEN streams' = [streams EXCEPT
                             ![s].pending = [i \in 1..(Len(task.actions) - st.last_action_count - 1)
                                               |-> st.last_action_count + 1 + i],
                             ![s].pc = "yield",
                             ![s].events = Append(@,
                                 Event("data", st.last_action_count + 1,
                                       task.actions[st.last_action_count + 1], 0, None))]
                     ELSE streams' = [streams EXCEPT ![s].pc = "sleep"]
                ELSE IF TruthyStr(task.final_answer)
                     THEN streams' = [streams EXCEPT ![s].pc = "final",
                             ![s].events = Append(@, FinalEvent(task.final_answer))]
                     ELSE streams' = [streams EXCEPT ![s].pc = "closed"]
             [] st.pc = "yield" ->
                \* lines 53-55
                IF st.pending # <<>>
                THEN streams' = [streams EXCEPT
                             ![s].pending = Tail(@),
                             ![s].events = Append(@,
                                 Event("data", Head(st.pending),
                                       task.actions[Head(st.pending)], 0, None))]
                ELSE streams' = [streams EXCEPT
                             ![s].last_action_count =
                                 CountAfterLoop(st.last_action_count, task.actions),
                             ![s].pc = "sleep"]
             [] st.pc = "sleep" ->
                \* line 56
                streams' = [streams EXCEPT ![s].pc = "poll"]
             [] st.pc = "final" ->
                streams' = [streams EXCEPT ![s].pc = "closed"]
        /\ UNCHANGED <<now, trackers, queries, agents, heap, procs, files, lastResponse>>

NextPy ==
    \/ AgentNew /\ TrackerIdle
    \/ \E a \in 1..Len(agents), q \in QueryStrings : PyStartQuery(a, q) /\ TrackerIdle
    \/ \E p \in 1..Len(procs) : PyProcRun(p) /\ TrackerIdle
    \/ \E a \in 1..Len(agents), id \in PyIds : PyCallStreamEvents(a, id) /\ TrackerIdle
    \/ \E s \in 1..Len(streams) : PyStreamStep(s) /\ TrackerIdle

\* one Agent object of deepresearch-py and the callers of its methods
SpecPy == Init /\ [][NextPy]_vars

(***************************************************************************)
(* The FastAPI route handlers (main.py)                                    *)
(***************************************************************************)

\* the budget field of a QueryBody: Optional[int] = None
RequestBudgets == {NoInt, SomeInt(1)}

\* an HTTP response: the route, the request id it is about, the status code
Response(route, id, status) == [route |-> route, id |-> id, status |-> status]

\* store_task_result (lines 66-82): writes tasks/{request_id}.json. No handler
\* and no coroutine calls it, so no action of the model uses it
StoreTaskResult(fs, request_id) == fs \cup {request_id}

\* a test that finds every request id in the map
RegisteredAlways(request_id) == TRUE

\* line 150: request_id in trackers
Registered(request_id) == request_id \in DOMAIN trackers

\* datetime.now() moves on by a millisecond
Tick ==
    /\ now < MaxClock
    /\ now' = now + 1
    /\ UNCHANGED <<trackers, queries, agents, heap, procs, streams, files, lastResponse>>

\* POST /api/v1/query, lines 105-127
Query(q, b) ==
    IF ~TruthyStr(q)
    THEN /\ lastResponse' = Response("query", 0, 400)
         /\ UNCHANGED <<now, trackers, queries, agents, heap, procs, streams, files>>
    ELSE LET request_id == now
             n == Len(queries) + 1
         IN  /\ Len(queries) < MaxQueries
             /\ queries' = Append(queries, [request_id |-> request_id, q |-> q,
                                            budget |-> b, usages |-> <<>>,
                                            action_tracker |-> NewActionState,
                                            fresh |-> ~Registered(request_id)])
             /\ trackers' = DictPut(trackers, request_id, n)
             /\ agents' = Append(agents, NewAgent)
             /\ procs' = Append(procs,
                                NewProc("process_query", Len(agents) + 1, request_id, n))
             /\ lastResponse' = Response("query", request_id, 200)
             /\ UNCHANGED <<now, heap, streams, files>>

\* GET /api/v1/stream/{request_id}, lines 150-151 and 191: the response
\* object with its generator, not yet run
Stream(request_id) ==
    IF ~Registered(request_id)
    THEN /\ lastResponse' = Response("stream", request_id, 404)
         /\ UNCHANGED <<now, trackers, queries, agents, heap, procs, streams, files>>
    ELSE /\ Len(streams) < MaxStreams
         /\ streams' = Append(streams, NewStream("sse", 0, request_id))
         /\ lastResponse' = Response("stream", request_id, 200)
         /\ UNCHANGED <<now, trackers, queries, agents, heap, procs, files>>

\* the client of a stream goes away
Disconnect(s) ==
    /\ s \in 1..Len(streams)
    /\ streams[s].kind = "sse"
    /\ streams[s].pc # "closed"
    /\ ~streams[s].disconnected
    /\ streams' = [streams EXCEPT ![s].disconnected = TRUE]
    /\ UNCHANGED <<now, trackers, queries, agents, heap, procs, files, lastResponse>>

\* lines 169-170 and 187-189: the generator of a client that is gone is
\* left, and its finally clause runs; a generator that has not run yet is
\* dropped as it is (closing it runs none of its code)
StreamBreak(s) ==
    /\ s \in 1..Len(streams)
    /\ streams[s].disconnected
    /\ streams[s].pc \notin {"closed", "dropped"}
    /\ IF streams[s].pc = "connect"
       THEN /\ streams' = [streams EXCEPT ![s].pc = "dropped"]
            /\ UNCHANGED trackers
       ELSE /\ streams' = [streams EXCEPT ![s].pc = "closed"]
            /\ trackers' = TrackersAfterClose(streams[s])
    /\ UNCHANGED <<now, queries, agents, heap, procs, files, lastResponse>>

\* GET /api/v1/task/{request_id}, lines 210-214
GetTask(request_id) ==
    /\ lastResponse' = Response("task", request_id,
                                IF request_id \in files THEN 200 ELSE 404)
    /\ UNCHANGED <<now, trackers, queries, agents, heap, procs, streams, files>>

\* a coroutine resumes from its await
ProcStep(p) ==
    \/ ProcResume(p, FALSE, "", NoSearch)
    \/ \E e \in CompletionErrors : ProcResume(p, TRUE, e, NoSearch)

NextQuery ==
    \/ Tick /\ TrackerIdle
    \/ \E q \in QueryStrings, b \in RequestBudgets : Query(q, b) /\ TrackerIdle
    \/ \E id \in Ids : GetTask(id) /\ TrackerIdle
    \/ \E p \in 1..Len(procs) : ProcStart(p) /\ TrackerIdle
    \/ \E p \in 1..Len(procs) : ProcStep(p) /\ UNCHANGED raceVars

\* the clients of POST /api/v1/query and GET /api/v1/task, and the event
\* loop running the coroutines they start
SpecQuery == Init /\ [][NextQuery]_vars

Next ==
    \/ \E q \in QueryStrings, b \in RequestBudgets :
          queries = <<>> /\ Query(q, b) /\ TrackerIdle
    \/ \E id \in Ids : Stream(id) /\ TrackerIdle
    \/ \E s \in 1..Len(streams) : Disconnect(s) /\ TrackerIdle
    \/ \E s \in 1..Len(streams) : StreamBreak(s) /\ TrackerIdle
    \/ \E p \in 1..Len(procs) : ProcStart(p) /\ TrackerIdle
    \/ \E p \in 1..Len(procs) : ProcStep(p) /\ UNCHANGED raceVars
    \/ \E s \in 1..Len(streams) : StreamStep(s) /\ TrackerIdle

\* the service with one accepted request: the clients of POST /api/v1/query
\* and GET /api/v1/stream, the event loop running the coroutine and the
\* generators
Spec == Init /\ [][Next]_vars

\* the event loop runs every coroutine that can run, and a connected client
\* keeps taking the events of its stream
Fairness ==
    /\ \A p \in 1..MaxQueries : WF_vars(ProcStart(p) /\ TrackerIdle)
    /\ \A p \in 1..MaxQueries : WF_vars(ProcStep(p) /\ UNCHANGED raceVars)
    /\ \A s \in 1..MaxStreams : WF_vars(StreamStep(s) /\ TrackerIdle)
    /\ \A s \in 1..MaxStreams : WF_vars(StreamBreak(s) /\ TrackerIdle)

FairSpec == Init /\ [][Next]_vars /\ Fairness

(***************************************************************************)
(* Properties of TokenTracker                                              *)
(***************************************************************************)

RECURSIVE SumOver(_, _)
SumOver(f, S) ==
    IF S = {} THEN 0
    ELSE LET t == CHOOSE x \in S : TRUE IN f[t] + SumOver(f, S \ {t})

\* C1: on a tracker constructed with a budget B, a call track_usage(tool, n)
\* made when get_total_usage() + n > B leaves the usages, the total and the
\* breakdown as they were, and returns normally.
C1_OverBudgetCallRecordsNothing ==
    (/\ lastCall.op = "track_usage"
     /\ budget.some
     /\ lastCall.before + lastCall.tokens > budget.v)
    => /\ usages = lastCall.usagesBefore
       /\ GetTotalUsage(usages) = lastCall.before
       /\ GetUsageBreakdown(usages) = GetUsageBreakdown(lastCall.usagesBefore)
       /\ lastCall.outcome = "rejected"

\* C2: with an integer budget B >= 0 and only non-negative amounts submitted,
\* get_total_usage() <= B in every reachable state.
C2_TotalWithinBudget ==
    (budget.some /\ budget.v >= 0 /\ ~sawNegative /\ resets = 0)
    => GetTotalUsage(usages) <= budget.v

\* C3: after any sequence of track_usage calls the total is the sum of the
\* accepted amounts, the breakdown maps exactly the tools with an accepted
\* usage to the sum accepted for them, and the breakdown's values add up to
\* the total.
C3_TotalAndBreakdownAreSums ==
    resets = 0 =>
        LET bd == GetUsageBreakdown(usages)
        IN  /\ GetTotalUsage(usages) = accTotal
            /\ DOMAIN bd = accTools
            /\ \A t \in accTools : bd[t] = accBy[t]
            /\ SumOver(bd, DOMAIN bd) = GetTotalUsage(usages)

\* a state where C3's case happens: each tool has one accepted usage and a
\* third call was rejected
C3_Witness ==
    /\ resets = 0
    /\ Len(usages) = 2
    /\ accTools = Tools
    /\ calls = 3
    /\ lastCall.outcome = "rejected"
    /\ accTotal > 0

\* C4: a track_usage call with a non-negative amount never lowers the total:
\* an accepted call raises it by exactly the amount, a rejected call leaves it.
C4_TotalNeverDecreases ==
    [][(calls' = calls + 1 /\ lastCall'.tokens >= 0)
        => /\ GetTotalUsage(usages') >= GetTotalUsage(usages)
           /\ lastCall'.outcome \in {"appended", "rejected"}
           /\ lastCall'.outcome = "appended"
                => GetTotalUsage(usages') = GetTotalUsage(usages) + lastCall'.tokens
           /\ lastCall'.outcome = "rejected"
                => GetTotalUsage(usages') = GetTotalUsage(usages)]_vars

\* a state where C4's case happens: a positive amount was rejected on a
\* tracker that already holds accepted usage below its budget
C4_Witness ==
    /\ lastCall.op = "track_usage"
    /\ lastCall.outcome = "rejected"
    /\ lastCall.tokens > 0
    /\ lastCall.before > 0
    /\ lastCall.before < budget.v
    /\ GetTotalUsage(usages) = lastCall.before

ActionEvents(s) ==
    {i \in 1..Len(streams[s].events) : streams[s].events[i].idx > 0}

\* the indices, in the task's action list, of the actions a stream has emitted
Emitted(s) == {streams[s].events[i].idx : i \in ActionEvents(s)}

\* C6: within one call of stream_events the progress events that carry
\* actions come in the order in which the actions were appended to the task's
\* list, each carries the action at its index, and none is emitted twice.
C6_ActionsStreamedInOrder ==
    \A s \in 1..Len(streams) :
        /\ \A i, j \in ActionEvents(s) :
              i < j => streams[s].events[i].idx < streams[s].events[j].idx
        /\ \A i \in ActionEvents(s) :
              LET e == streams[s].events[i]
              IN  /\ e.idx <= Len(heap[streams[s].task].actions)
                  /\ e.action = heap[streams[s].task].actions[e.idx]

\* a stream that has emitted two actions of its task in two different polls
\* and has ended
C6_Witness ==
    \E s \in 1..Len(streams) :
        /\ streams[s].pc = "closed"
        /\ {1, 2} \subseteq Emitted(s)
        /\ \E i \in ActionEvents(s) :
              streams[s].events[i].idx = 1 /\ streams[s].events[i].step = 1

\* C7: every action appended to a task while a consumer is inside the
\* polling loop of stream_events on it has been emitted to that consumer as a
\* progress event by the time the consumer's stream has emitted its final
\* event or has ended.
C7_AppendedActionsAllStreamed ==
    \A s \in 1..Len(streams) :
        streams[s].pc \in {"final", "closed"} => streams[s].owed \subseteq Emitted(s)

(***************************************************************************)
(* Properties of the service                                               *)
(***************************************************************************)

\* every coroutine processing request id has ended (status completed or error)
ProcessingOver(id) ==
    \A p \in 1..Len(procs) : procs[p].id = id => procs[p].pc = "done"

\* a coroutine processing request id has ended and left a final answer
FinishedWithAnswer(id) ==
    \E p \in 1..Len(procs) :
        /\ procs[p].id = id
        /\ procs[p].pc = "done"
        /\ heap[procs[p].task].status \in {"completed", "error"}
        /\ TruthyStr(heap[procs[p].task].final_answer)

\* C8: a stream opened on GET /api/v1/stream/{request_id} for an accepted
\* request, once connected, eventually ends with the request's processing
\* over and the request's tracker entry removed, unless its client goes away.
C8_ConnectedStreamEnds ==
    \A s \in 1..MaxStreams :
        (s \in 1..Len(streams) /\ streams[s].pc = "open")
            ~> /\ s \in 1..Len(streams)
               /\ \/ streams[s].disconnected
                  \/ /\ streams[s].pc = "closed"
                     /\ ProcessingOver(streams[s].id)
                     /\ streams[s].id \notin DOMAIN trackers

\* C9: a GET /api/v1/task/{request_id} made after the processing of the
\* request has finished with a final answer is answered with the stored
\* result (status 200), not with 404.
C9_FinishedResultIsServed ==
    [][\A id \in Ids :
          (/\ FinishedWithAnswer(id)
           /\ lastResponse' # lastResponse
           /\ lastResponse'.route = "task"
           /\ lastResponse'.id = id)
          => lastResponse'.status = 200]_vars

\* C10: once a track_usage call made for a request on the request's tracker
\* has been rejected, the processing of the request appends no further
\* action to the task and the task is no longer running.
C10_RejectionEndsProcessing ==
    \A p \in 1..Len(procs) :
        procs[p].rejected
            => /\ procs[p].appendedAfter = 0
               /\ heap[procs[p].task].status # "running"

\* C11: any two accepted queries have different request ids, and the entry
\* of the trackers map registered for an accepted query is still that
\* query's as long as no stream has removed it.
C11_RequestIdsDistinct ==
    /\ \A m, n \in 1..Len(queries) :
          m # n => queries[m].request_id # queries[n].request_id
    /\ streams = <<>> =>
          \A n \in 1..Len(queries) :
              /\ Registered(queries[n].request_id)
              /\ trackers[queries[n].request_id] = n

\* the coroutines started for request id
ProcsOf(id) == {p \in 1..Len(procs) : procs[p].id = id}

\* C12: every accepted query was registered under a request id that was
\* new, exactly one background task was started for its id, and that task
\* is handed, and once running uses, the trackers registered for the query;
\* the response to the query carries its id.
C12_QueryRegistersAndStartsOneTask ==
    \A n \in 1..Len(queries) :
        LET id == queries[n].request_id
        IN  /\ queries[n].fresh
            /\ Cardinality(ProcsOf(id)) = 1
            /\ \A p \in ProcsOf(id) :
                  /\ procs[p].kind = "process_query"
                  /\ procs[p].tracker = n
                  /\ procs[p].pc # "scheduled"
                        => agents[procs[p].agent].token_tracker = n
            /\ (n = Len(queries) /\ lastResponse.route = "query"
                    /\ lastResponse.status = 200) => lastResponse.id = id

\* C13: a POST /api/v1/query is accepted only with a non-empty q; one that
\* is answered with status 400 leaves the trackers map, the coroutines and
\* the agents as they were.
C13_EmptyQueryRejected ==
    [][(lastResponse' # lastResponse /\ lastResponse'.route = "query")
        => \/ /\ lastResponse'.status = 400
              /\ UNCHANGED <<trackers, queries, procs, agents, heap>>
           \/ /\ lastResponse'.status = 200
              /\ Len(queries') = Len(queries) + 1
              /\ queries'[Len(queries')].q # ""]_vars

\* a query answered with 400 after another one was accepted and has started
C13_Witness ==
    /\ lastResponse = Response("query", 0, 400)
    /\ DOMAIN trackers # {}
    /\ Len(procs) = 1
    /\ procs[1].pc = "completion"

\* C14: a GET /api/v1/stream/{request_id} for an id with no entry in the
\* trackers map is answered with status 404, creates no generator (so no
\* event is emitted) and leaves the trackers map and every agent's task map
\* as they were; for a registered id it is answered with status 200.
C14_UnknownIdIs404 ==
    [][(lastResponse' # lastResponse /\ lastResponse'.route = "stream")
        => IF lastResponse'.id \notin DOMAIN trackers
           THEN /\ lastResponse'.status = 404
                /\ UNCHANGED <<trackers, agents, heap, streams>>
           ELSE lastResponse'.status = 200]_vars

\* a 404 for the id of an accepted request whose entry a finished stream
\* has removed
C14_Witness ==
    /\ lastResponse.route = "stream"
    /\ lastResponse.status = 404
    /\ \E n \in 1..Len(queries) : queries[n].request_id = lastResponse.id
    /\ \E s \in 1..Len(streams) :
          streams[s].id = lastResponse.id /\ streams[s].pc = "closed"

\* C15: the first event of every stream of the route is the 'connected'
\* event with the stream's request id and the token usage and action state
\* of the request's trackers, and no later event is a 'connected' event.
C15_ConnectedEventFirst ==
    \A s \in 1..Len(streams) :
        (streams[s].kind = "sse" /\ streams[s].events # <<>>) =>
            LET e == streams[s].events[1]
            IN  /\ e.type = "connected"
                /\ e.requestId = streams[s].id
                /\ \E n \in 1..Len(queries) :
                      /\ queries[n].request_id = e.requestId
                      /\ e.tokenUsage = GetTotalUsage(queries[n].usages)
                      /\ e.actionState = GetState(queries[n].action_tracker)
                /\ \A i \in 2..Len(streams[s].events) :
                      streams[s].events[i].type \in {"progress", "final", "error"}

\* a stream that has emitted the connected event and then a progress event
C15_Witness ==
    \E s \in 1..Len(streams) :
        /\ streams[s].kind = "sse"
        /\ Len(streams[s].events) = 2
        /\ streams[s].events[2].type = "progress"

\* C16: in the step in which a stream's generator finishes, whether it
\* returns, is left after a disconnect or raises, the trackers map ends up
\* with no entry for the stream's request id.
C16_FinishedStreamRemovesEntry ==
    [][\A s \in 1..Len(streams) :
          (streams[s].pc # "closed" /\ streams'[s].pc = "closed")
              => streams[s].id \notin DOMAIN trackers']_vars

\* a stream left after its client went away, whose entry is gone
C16_Witness ==
    \E s \in 1..Len(streams) :
        /\ streams[s].pc = "closed"
        /\ streams[s].disconnected
        /\ streams[s].events # <<>>
        /\ \E n \in 1..Len(queries) : queries[n].request_id = streams[s].id
        /\ streams[s].id \notin DOMAIN trackers

\* the positions of the 'error' events of a stream
ErrorEvents(s) ==
    {i \in 1..Len(streams[s].events) : streams[s].events[i].type = "error"}

\* C17: a stream in which an exception was raised has emitted exactly one
\* 'error' event, and the exception has not left the generator unhandled.
C17_ExceptionYieldsErrorEvent ==
    \A s \in 1..Len(streams) :
        streams[s].raised # None
            => /\ Cardinality(ErrorEvents(s)) = 1
               /\ ~streams[s].crashed

\* C18: no stream ends with an unhandled exception, and a GET
\* /api/v1/stream/{request_id} is not refused with 404 while the request is
\* still being processed.
C18_ConsumersIndependent ==
    /\ \A s \in 1..Len(streams) : ~streams[s].crashed
    /\ (lastResponse.route = "stream" /\ lastResponse.status = 404)
          => ProcessingOver(lastResponse.id)

(***************************************************************************)
(* Properties of the ActionTracker and of the deepresearch-py Agent        *)
(***************************************************************************)

\* an ActionTracker state with its initial counters
Undriven(state) ==
    state.total_step = 0 /\ state.bad_attempts = 0 /\ state.gaps = <<>>

\* C19: the ActionTracker of every request and of every agent still has
\* total_step = 0, bad_attempts = 0 and gaps = [], the connected events
\* report that state, and every progress event reports badAttempts 0 and
\* empty gaps.
C19_ActionTrackerNeverDriven ==
    /\ \A n \in 1..Len(queries) : Undriven(queries[n].action_tracker)
    /\ \A a \in 1..Len(agents) : Undriven(agents[a].action_state)
    /\ \A s \in 1..Len(streams) :
          \A i \in 1..Len(streams[s].events) :
              LET e == streams[s].events[i]
              IN  /\ e.type = "connected" => Undriven(e.actionState)
                  /\ e.type = "progress" => e.badAttempts = 0 /\ e.gaps = <<>>

\* the request's processing has appended an action and has ended, and a
\* stream of the request has emitted its connected and progress events
C19_Witness ==
    /\ \E p \in 1..Len(procs) :
          /\ procs[p].pc = "done"
          /\ heap[procs[p].task].actions # <<>>
          /\ agents[procs[p].agent].action_tracker = 1
    /\ \E s \in 1..Len(streams) : Len(streams[s].events) = 2

\* C20: a task started with start_query of the deepresearch-py Agent is
\* running until its coroutine has run and is then completed, with no action
\* and no final answer whatever the query was; no stream emits an event, and
\* a stream that found its task raises no exception.
C20_PyQueryCompletesEmpty ==
    /\ \A p \in 1..Len(procs) :
          LET task == heap[procs[p].task]
          IN  /\ task.status = IF procs[p].pc = "done" THEN "completed" ELSE "running"
              /\ task.actions = <<>>
              /\ task.final_answer = None
    /\ \A s \in 1..Len(streams) :
          /\ streams[s].events = <<>>
          /\ streams[s].task # 0 => ~streams[s].crashed

\* two queries, the empty one among them, are completed, and a stream that
\* polled one of them while it was running has ended
C20_Witness ==
    /\ Len(procs) = 2
    /\ \A p \in 1..2 : procs[p].pc = "done"
    /\ \E p \in 1..2 : queries[p].q = ""
    /\ \E s \in 1..Len(streams) :
          /\ streams[s].pc = "closed"
          /\ streams[s].task # 0
          /\ streams[s].events = <<>>

(***************************************************************************)
(* Properties of the tool wrappers                                         *)
(***************************************************************************)

\* C21: a wrapper call that was given a tracker and returned a successful
\* response has made exactly one track_usage call, with the wrapper's own
\* tool name and the token count it returned; a call that raised or returned
\* a failure response has made none.
C21_WrapperTracksOncePerSuccess ==
    \A t \in 1..Len(procs) :
        LET c == procs[t]
        IN  c.tracker =>
              /\ c.pc = "returned" /\ ~c.failure =>
                    c.tracked = <<[tool |-> ToolNameOf(c.wrapper), tokens |-> c.tokens]>>
              /\ c.pc = "raised" \/ c.failure => c.tracked = <<>>
              /\ c.pc = "request" => c.tracked = <<>>

(***************************************************************************)
(* Properties of the per-request trackers                                  *)
(***************************************************************************)

\* what a caller can observe of the TokenTracker of request n:
\* get_total_usage(), get_usage_breakdown() and what track_usage would do
\* with each amount
TrackerView(n) ==
    LET us == queries[n].usages
    IN  [total |-> GetTotalUsage(us),
         breakdown |-> GetUsageBreakdown(us),
         decision |-> [k \in 0..MaxAmount |->
                          Outcome(queries[n].budget, GetTotalUsage(us), k)]]

\* the processing of request n takes a step
Processes(n) ==
    \E p \in 1..Len(procs) : procs[p].tracker = n /\ procs'[p] # procs[p]

====
